---------------------------- MODULE Spec2Model ----------------------------
(***************************************************************************)
(* A model of the statetrie package: a Merkle-Patricia trie (Trie) over a  *)
(* key-value store.  Trie (root, dels), Add, Delete, SetRoot, RootHash,    *)
(* Commit, getNode, delNode and addNode are translated from trie.go.  The  *)
(* node types (leaf, extension, branch, placeholder), their descendAdd /   *)
(* descendDelete / raise / descendHash methods and the nibble and node     *)
(* serializers are not part of the sources at hand; they are modelled from *)
(* the design document (sections 3 and 4) and from the test fixtures.      *)
(***************************************************************************)
EXTENDS Integers, Sequences, FiniteSets, TLC

(***************************************************************************)
(* Bounds of the model and program constants.                              *)
(***************************************************************************)
\* number of calls (Add, Delete, RootHash, Commit) in one run
MaxOps == 4
\* number of calls in a run in which calls may be rejected or fail
MaxErrOps == 3
\* number of calls on the first trie in a run that opens the second trie
MaxOpenOps == 4
\* number of calls on the first trie in a run that commits it twice
MaxCoOps == 4
\* length of the longest nibble sequence that is packed
MaxNibbles == 4
\* number of calls in a run with a nested trie
MaxNestOps == 4
\* trie.go: MaxKeyLength
MaxKeyLength == 65535
\* a branch node has 16 child slots, indexed by a nibble 0..15
NumChildren == 16

\* the keys handed to Add and Delete (nibble paths, trie.go takes nibbles).
\* They exercise: a leaf split with and without a shared prefix, a key that
\* is a prefix of another (branch value), an extension of length 2 that is
\* split in the middle, at its end and at its start, and every collapse.
Keys ==
    { <<0>>, <<1>>, <<0, 0>>, <<0, 1>>, <<0, 0, 0>>, <<0, 0, 1>> }
\* keys the length checks reject: the empty key and a key of MaxKeyLength + 1
RECURSIVE Zeros(_)
Zeros(n) ==
    IF n = 0 THEN <<>>
    ELSE IF n % 2 = 0 THEN LET h == Zeros(n \div 2) IN h \o h
    ELSE <<0>> \o Zeros(n - 1)
LongKey == Zeros(MaxKeyLength + 1)
BadKeys == { <<>>, LongKey }
\* the values handed to Add: the one-byte strings <<1>> and <<2>>
Values == {1, 2}

\* With(x, F): F(x), with x evaluated once
With(x, F(_)) == CHOOSE y \in {F(v) : v \in {x}} : TRUE

(***************************************************************************)
(* Byte strings and digests.  A byte string is modelled by its literal     *)
(* bytes (raw) and by the 32-byte digests embedded in it (digests), in     *)
(* order.  crypto.Hash is collision resistant: it is modelled as an        *)
(* injective function of the byte string.  The zero digest (32 zero bytes) *)
(* is the digest of no byte string.                                        *)
(***************************************************************************)
Bytes(raw, digests) == [raw |-> raw, digests |-> digests]
Hash(b) == <<b>>
ZeroDigest == <<>>
ValueBytes(v) == Bytes(<<v>>, <<>>)
ValueHash(v) == Hash(ValueBytes(v))

(***************************************************************************)
(* Nibble paths.                                                           *)
(***************************************************************************)
\* shiftNibbles(n, k): n[k:] ; n itself for k <= 0; empty when k >= len(n)
shiftNibbles(n, k) ==
    IF k <= 0 THEN n
    ELSE IF k >= Len(n) THEN <<>>
    ELSE SubSeq(n, k + 1, Len(n))

\* sharedNibbles(a, b): the longest common prefix
RECURSIVE sharedNibbles(_, _)
sharedNibbles(a, b) ==
    IF a = <<>> \/ b = <<>> \/ Head(a) # Head(b) THEN <<>>
    ELSE <<Head(a)>> \o sharedNibbles(Tail(a), Tail(b))

IsPrefix(p, n) == Len(p) <= Len(n) /\ SubSeq(n, 1, Len(p)) = p

\* pack that puts the first nibble of a pair in the low half of the byte
packBytesLowFirst(n) ==
    [i \in 1 .. ((Len(n) + 1) \div 2) |->
        n[2 * i - 1] + 16 * (IF 2 * i <= Len(n) THEN n[2 * i] ELSE 0)]

\* pack: two nibbles a byte, high half first; half = odd length, and then
\* the last low half is 0
packBytes(n) ==
    [i \in 1 .. ((Len(n) + 1) \div 2) |->
        n[2 * i - 1] * 16 + (IF 2 * i <= Len(n) THEN n[2 * i] ELSE 0)]
packHalf(n) == Len(n) % 2 = 1

\* unpack: the inverse; with half, the trailing zero nibble is dropped
unpack(b, half) ==
    [i \in 1 .. (2 * Len(b) - (IF half THEN 1 ELSE 0)) |->
        IF i % 2 = 1 THEN b[(i + 1) \div 2] \div 16 ELSE b[i \div 2] % 16]

\* nibbles.serialize: the packed bytes and a last byte, 1 for an odd length
\* and 3 for an even one.  This is a node's database key.
serializeNibbles(n) == packBytes(n) \o <<IF packHalf(n) THEN 1 ELSE 3>>

(***************************************************************************)
(* Nodes.  hash is the node's cached digest: <<>> (nil) or <<digest>>.     *)
(***************************************************************************)
Nil == [kind |-> "nil"]
NoChildren == [i \in 0 .. (NumChildren - 1) |-> Nil]

makeLeafNode(keyEnd, valueHash, key) ==
    [kind |-> "leaf", key |-> key, keyEnd |-> keyEnd,
     valueHash |-> valueHash, hash |-> <<>>]
makeExtensionNode(sharedKey, child, key) ==
    [kind |-> "ext", key |-> key, sharedKey |-> sharedKey,
     child |-> child, hash |-> <<>>]
makeBranchNode(children, valueHash, key) ==
    [kind |-> "branch", key |-> key, children |-> children,
     valueHash |-> valueHash, hash |-> <<>>]
\* the placeholder of a node that lives in the store
makeDBNode(hash, key) ==
    [kind |-> "db", key |-> key, hash |-> <<hash>>]

\* node.getDBKey: nil (<<>>) for a node that was never hashed, else the
\* serialization of its path
getDBKey(n) ==
    IF n.hash = <<>> THEN <<>> ELSE serializeNibbles(n.key)

\* the digest a parent stores for child c (which is hashed, or Nil)
ChildDigest(c) ==
    IF c.kind = "nil" THEN ZeroDigest ELSE c.hash[1]

\* node serialization that tags every leaf and extension as of even length
serializeNodeEvenTag(n) ==
    CASE n.kind = "leaf" -> Bytes(<<4>> \o packBytes(n.keyEnd), <<n.valueHash>>)
      [] n.kind = "ext" -> Bytes(<<2>> \o packBytes(n.sharedKey), <<ChildDigest(n.child)>>)
      [] n.kind = "branch" ->
            Bytes(<<5>>,
                  [i \in 1 .. (NumChildren + 1) |->
                      IF i <= NumChildren THEN ChildDigest(n.children[i - 1])
                      ELSE n.valueHash])

\* node serialization: a tag byte, the digest(s), the packed key
serializeNode(n) ==
    CASE n.kind = "leaf" ->
            Bytes(<<IF packHalf(n.keyEnd) THEN 3 ELSE 4>> \o packBytes(n.keyEnd),
                  <<n.valueHash>>)
      [] n.kind = "ext" ->
            Bytes(<<IF packHalf(n.sharedKey) THEN 1 ELSE 2>> \o packBytes(n.sharedKey),
                  <<ChildDigest(n.child)>>)
      [] n.kind = "branch" ->
            Bytes(<<5>>,
                  [i \in 1 .. (NumChildren + 1) |->
                      IF i <= NumChildren THEN ChildDigest(n.children[i - 1])
                      ELSE n.valueHash])

\* deserializeNode(bytes, key): the node at path key, its children
\* placeholders; Nil stands for an error (a tag that is no node's)
deserializeNode(b, key) ==
    LET tag == b.raw[1]
        nib == unpack(Tail(b.raw), tag \in {1, 3})
    IN  CASE tag \in {3, 4} -> makeLeafNode(nib, b.digests[1], key)
          [] tag \in {1, 2} ->
                makeExtensionNode(nib, makeDBNode(b.digests[1], key \o nib), key)
          [] tag = 5 ->
                makeBranchNode(
                    [i \in 0 .. (NumChildren - 1) |->
                        IF b.digests[i + 1] = ZeroDigest THEN Nil
                        ELSE makeDBNode(b.digests[i + 1], key \o <<i>>)],
                    b.digests[NumChildren + 1], key)
          [] OTHER -> Nil

\* the root node: one child digest, tag 0
makeRootNode(child) == [kind |-> "root", key |-> <<>>, child |-> child]
serializeRootNode(rn) == Bytes(<<0>>, <<rn.child>>)

\* what a deserializer returns: the node, or an error
Decoded(n) == [err |-> FALSE, node |-> n]
BadEncoding == [err |-> TRUE]

\* the deserializers of one kind each: the tag has to be one of the kind
deserializeRootNode(b) ==
    IF b.raw[1] = 0 THEN Decoded(makeRootNode(b.digests[1])) ELSE BadEncoding
deserializeLeafNode(b, key) ==
    IF b.raw[1] \in {3, 4} THEN Decoded(deserializeNode(b, key)) ELSE BadEncoding
deserializeExtensionNode(b, key) ==
    IF b.raw[1] \in {1, 2} THEN Decoded(deserializeNode(b, key)) ELSE BadEncoding
deserializeBranchNode(b, key) ==
    IF b.raw[1] = 5 THEN Decoded(deserializeNode(b, key)) ELSE BadEncoding


(***************************************************************************)
(* The store manager's node bookkeeping (trie.go).  dels is the set of the *)
(* keys of the map mt.dels (its values are never read).                    *)
(***************************************************************************)
\* Trie.delNode: note the node's database key for deletion on commit
delNode(dels, n) ==
    IF getDBKey(n) # <<>> THEN dels \cup {getDBKey(n)} ELSE dels

\* Trie.addNode: delete(mt.dels, string(n.getKey())): the key is the path
\* itself, one byte a nibble
addNode(dels, n) == dels \ {n.key}

\* Trie.getNode: [node, panic].  A placeholder whose key is scheduled for
\* deletion yields nil; a key the store does not hold, or bytes that do not
\* deserialize, panic.  The node returned carries no hash.
getNode(dbn, dels, store) ==
    LET dbKey == getDBKey(dbn)
    IN  IF dbKey = <<>> THEN [node |-> Nil, panic |-> FALSE]
        ELSE IF dbKey \in dels THEN [node |-> Nil, panic |-> FALSE]
        ELSE IF dbKey \notin DOMAIN store THEN [node |-> Nil, panic |-> TRUE]
        ELSE LET trieNode == deserializeNode(store[dbKey], dbn.key)
             IN  [node |-> trieNode, panic |-> trieNode.kind = "nil"]

(***************************************************************************)
(* The mutation engine.  Every operation returns the replacement node and  *)
(* the pending-delete set after it; the node replaced on the way is handed *)
(* to delNode and each node made is handed to addNode.                     *)
(***************************************************************************)
AddResult(n, dels, panic) == [node |-> n, dels |-> dels, panic |-> panic]

\* a leaf with keyEnd # remainingKey, or an extension whose sharedKey is no
\* prefix of remainingKey, is replaced by a branch at the end of the shared
\* prefix (under an extension when the prefix is not empty).  old is what
\* hangs below the old node's side: a value hash (oldValue, when the old
\* key ends at the branch) or a node (oldChild, at nibble oldRest[1]; made
\* by this split when oldIsNew).
Split(n, dels, pathKey, shared, oldRest, oldValue, oldChild, oldIsNew, newRest, valueHash) ==
    LET bkey == pathKey \o shared
        newLeaf == makeLeafNode(shiftNibbles(newRest, 1), valueHash,
                                bkey \o <<newRest[1]>>)
        children ==
            [i \in 0 .. (NumChildren - 1) |->
                IF oldRest # <<>> /\ i = oldRest[1] THEN oldChild
                ELSE IF newRest # <<>> /\ i = newRest[1] THEN newLeaf
                ELSE Nil]
        bvalue == IF oldRest = <<>> THEN oldValue
                  ELSE IF newRest = <<>> THEN valueHash
                  ELSE ZeroDigest
        branch == makeBranchNode(children, bvalue, bkey)
        d1 == delNode(dels, n)
        d2 == IF oldRest # <<>> /\ oldIsNew THEN addNode(d1, oldChild) ELSE d1
        d3 == IF newRest # <<>> THEN addNode(d2, newLeaf) ELSE d2
        d4 == addNode(d3, branch)
    IN  IF shared = <<>> THEN AddResult(branch, d4, FALSE)
        ELSE LET ext == makeExtensionNode(shared, branch, pathKey)
             IN  AddResult(ext, addNode(d4, ext), FALSE)

RECURSIVE descendAdd(_, _, _, _, _, _)
descendAdd(n, dels, store, pathKey, remainingKey, valueHash) ==
    CASE n.kind = "leaf" ->
            IF n.keyEnd = remainingKey
            THEN \* overwrite
                 LET ln == makeLeafNode(n.keyEnd, valueHash, n.key)
                 IN  AddResult(ln, addNode(delNode(dels, n), ln), FALSE)
            ELSE LET shared == sharedNibbles(n.keyEnd, remainingKey)
                     oldRest == shiftNibbles(n.keyEnd, Len(shared))
                     newRest == shiftNibbles(remainingKey, Len(shared))
                     oldLeaf == IF oldRest = <<>> THEN Nil
                                ELSE makeLeafNode(shiftNibbles(oldRest, 1), n.valueHash,
                                                  pathKey \o shared \o <<oldRest[1]>>)
                 IN  Split(n, dels, pathKey, shared, oldRest, n.valueHash,
                           oldLeaf, TRUE, newRest, valueHash)
      [] n.kind = "ext" ->
            IF IsPrefix(n.sharedKey, remainingKey)
            THEN With(descendAdd(n.child, dels, store, pathKey \o n.sharedKey,
                                 shiftNibbles(remainingKey, Len(n.sharedKey)),
                                 valueHash),
                      LAMBDA r :
                        LET en == makeExtensionNode(n.sharedKey, r.node, n.key)
                        IN  IF r.panic THEN AddResult(n, dels, TRUE)
                            ELSE AddResult(en, addNode(delNode(r.dels, n), en), FALSE))
            ELSE LET shared == sharedNibbles(n.sharedKey, remainingKey)
                     oldRest == shiftNibbles(n.sharedKey, Len(shared))
                     newRest == shiftNibbles(remainingKey, Len(shared))
                     oldChild ==
                         IF Len(oldRest) = 1 THEN n.child
                         ELSE makeExtensionNode(shiftNibbles(oldRest, 1), n.child,
                                                pathKey \o shared \o <<oldRest[1]>>)
                 IN  Split(n, dels, pathKey, shared, oldRest, ZeroDigest,
                           oldChild, Len(oldRest) > 1, newRest, valueHash)
      [] n.kind = "branch" ->
            IF remainingKey = <<>>
            THEN LET bn == makeBranchNode(n.children, valueHash, n.key)
                 IN  AddResult(bn, addNode(delNode(dels, n), bn), FALSE)
            ELSE LET i == remainingKey[1]
                     rest == shiftNibbles(remainingKey, 1)
                 IN  With(IF n.children[i].kind = "nil"
                          THEN LET ln == makeLeafNode(rest, valueHash, pathKey \o <<i>>)
                               IN  AddResult(ln, addNode(dels, ln), FALSE)
                          ELSE descendAdd(n.children[i], dels, store,
                                          pathKey \o <<i>>, rest, valueHash),
                          LAMBDA r :
                            LET bn == makeBranchNode([n.children EXCEPT ![i] = r.node],
                                                     n.valueHash, n.key)
                            IN  IF r.panic THEN AddResult(n, dels, TRUE)
                                ELSE AddResult(bn, addNode(delNode(r.dels, n), bn), FALSE))
      [] n.kind = "db" ->
            \* fault the node in; a nil node is dereferenced (panic)
            With(getNode(n, dels, store),
                 LAMBDA g :
                    IF g.panic \/ g.node.kind = "nil" THEN AddResult(n, dels, TRUE)
                    ELSE descendAdd(g.node, dels, store, pathKey, remainingKey, valueHash))


DeleteResult(n, found, dels, panic) ==
    [node |-> n, found |-> found, dels |-> dels, panic |-> panic]

\* raise: re-hoist node n to path key with prefix put in front of its key
\* part: a leaf or an extension absorbs the prefix, a branch gets an
\* extension on top, a placeholder is faulted in first.
RECURSIVE raise(_, _, _, _, _)
raise(n, dels, store, prefix, key) ==
    CASE n.kind = "leaf" ->
            LET ln == makeLeafNode(prefix \o n.keyEnd, n.valueHash, key)
            IN  AddResult(ln, addNode(delNode(dels, n), ln), FALSE)
      [] n.kind = "ext" ->
            LET en == makeExtensionNode(prefix \o n.sharedKey, n.child, key)
            IN  AddResult(en, addNode(delNode(dels, n), en), FALSE)
      [] n.kind = "branch" ->
            LET en == makeExtensionNode(prefix, n, key)
            IN  AddResult(en, addNode(dels, en), FALSE)
      [] n.kind = "db" ->
            With(getNode(n, dels, store),
                 LAMBDA g :
                    IF g.panic \/ g.node.kind = "nil" THEN AddResult(n, dels, TRUE)
                    ELSE raise(g.node, dels, store, prefix, key))

\* the occupants of a branch: its populated children and its value
Occupants(children, valueHash) ==
    Cardinality({i \in DOMAIN children : children[i].kind # "nil"})
        + (IF valueHash # ZeroDigest THEN 1 ELSE 0)

\* the branch-collapse rule, applied to branch n after a deletion left it
\* with children and valueHash
Collapse(n, dels, store, children, valueHash) ==
    LET occ == Occupants(children, valueHash)
        d1 == delNode(dels, n)
    IN  IF occ >= 2
        THEN LET bn == makeBranchNode(children, valueHash, n.key)
             IN  DeleteResult(bn, TRUE, addNode(d1, bn), FALSE)
        ELSE IF occ = 0 THEN DeleteResult(Nil, TRUE, d1, FALSE)
        ELSE IF valueHash # ZeroDigest
        THEN LET ln == makeLeafNode(<<>>, valueHash, n.key)
             IN  DeleteResult(ln, TRUE, addNode(d1, ln), FALSE)
        ELSE LET i == CHOOSE i \in DOMAIN children : children[i].kind # "nil"
             IN  With(raise(children[i], d1, store, <<i>>, n.key),
                      LAMBDA r :
                        IF r.panic THEN DeleteResult(n, FALSE, dels, TRUE)
                        ELSE DeleteResult(r.node, TRUE, r.dels, FALSE))

RECURSIVE descendDelete(_, _, _, _, _)
descendDelete(n, dels, store, pathKey, remainingKey) ==
    CASE n.kind = "leaf" ->
            IF n.keyEnd = remainingKey
            THEN DeleteResult(Nil, TRUE, delNode(dels, n), FALSE)
            ELSE DeleteResult(n, FALSE, dels, FALSE)
      [] n.kind = "ext" ->
            IF ~IsPrefix(n.sharedKey, remainingKey)
            THEN DeleteResult(n, FALSE, dels, FALSE)
            ELSE With(descendDelete(n.child, dels, store, pathKey \o n.sharedKey,
                                    shiftNibbles(remainingKey, Len(n.sharedKey))),
                      LAMBDA r :
                        LET d1 == delNode(r.dels, n)
                        IN  IF r.panic THEN DeleteResult(n, FALSE, dels, TRUE)
                            ELSE IF ~r.found THEN DeleteResult(n, FALSE, dels, FALSE)
                            ELSE IF r.node.kind = "nil"
                            THEN DeleteResult(Nil, TRUE, d1, FALSE)
                            ELSE IF r.node.kind \in {"leaf", "ext"}
                            THEN \* the child degenerated: the extension absorbs it
                                 With(raise(r.node, d1, store, n.sharedKey, n.key),
                                      LAMBDA a : DeleteResult(a.node, TRUE, a.dels, FALSE))
                            ELSE LET en == makeExtensionNode(n.sharedKey, r.node, n.key)
                                 IN  DeleteResult(en, TRUE, addNode(d1, en), FALSE))
      [] n.kind = "branch" ->
            IF remainingKey = <<>>
            THEN IF n.valueHash = ZeroDigest THEN DeleteResult(n, FALSE, dels, FALSE)
                 ELSE Collapse(n, dels, store, n.children, ZeroDigest)
            ELSE LET i == remainingKey[1]
                 IN  IF n.children[i].kind = "nil"
                     THEN DeleteResult(n, FALSE, dels, FALSE)
                     ELSE With(descendDelete(n.children[i], dels, store,
                                             pathKey \o <<i>>,
                                             shiftNibbles(remainingKey, 1)),
                               LAMBDA r :
                                 IF r.panic THEN DeleteResult(n, FALSE, dels, TRUE)
                                 ELSE IF ~r.found THEN DeleteResult(n, FALSE, dels, FALSE)
                                 ELSE Collapse(n, r.dels, store,
                                               [n.children EXCEPT ![i] = r.node],
                                               n.valueHash))
      [] n.kind = "db" ->
            With(getNode(n, dels, store),
                 LAMBDA g :
                    IF g.panic \/ g.node.kind = "nil"
                    THEN DeleteResult(n, FALSE, dels, TRUE)
                    ELSE descendDelete(g.node, dels, store, pathKey, remainingKey))

(***************************************************************************)
(* The hasher.  A node that has its digest cached is not walked again.     *)
(***************************************************************************)
\* the entries put in a batch: a function from database key to bytes
NoPuts == [k \in {} |-> <<>>]

\* descendHashWithCommit: [node, puts]: the node with every digest below it
\* cached, and a put (database key, serialization) for each node hashed.
\* HashChildren walks the children of a branch from slot i on.
RECURSIVE descendHashWithCommit(_), HashChildren(_, _, _)
HashChildren(children, puts, i) ==
    IF i = NumChildren THEN [children |-> children, puts |-> puts]
    ELSE With(descendHashWithCommit(children[i]),
              LAMBDA c : HashChildren([children EXCEPT ![i] = c.node], c.puts @@ puts, i + 1))

\* the node itself, once everything below it is hashed
HashNode(n, puts) ==
    With(serializeNode(n),
         LAMBDA bytes :
            With([n EXCEPT !.hash = <<Hash(bytes)>>],
                 LAMBDA hashed :
                    [node |-> hashed, puts |-> (getDBKey(hashed) :> bytes) @@ puts]))

descendHashWithCommit(n) ==
    IF n.kind = "nil" \/ n.hash # <<>> THEN [node |-> n, puts |-> NoPuts]
    ELSE CASE n.kind = "leaf" -> HashNode(n, NoPuts)
           [] n.kind = "ext" ->
                 With(descendHashWithCommit(n.child),
                      LAMBDA c : HashNode([n EXCEPT !.child = c.node], c.puts))
           [] n.kind = "branch" ->
                 With(HashChildren(n.children, NoPuts, 0),
                      LAMBDA cs : HashNode([n EXCEPT !.children = cs.children], cs.puts))

\* descendHash: the same walk without the batch
descendHash(n) == descendHashWithCommit(n).node


(***************************************************************************)
(* The Trie (trie.go).  A trie t is [root, dels]; the operations below     *)
(* return the trie after the call and what the call returns.  err is       *)
(* NoErr or the error returned; panic says that the call panicked.         *)
(***************************************************************************)
NoErr == "nil"
MakeTrie == [root |-> Nil, dels |-> {}]

\* Trie.Add that starts an empty trie with an extension above the leaf
TrieAddWrapsLeaf(t, store, key, value) ==
    IF Len(key) = 0
    THEN [root |-> t.root, dels |-> t.dels, err |-> "empty key not allowed", panic |-> FALSE]
    ELSE IF Len(key) > MaxKeyLength
    THEN [root |-> t.root, dels |-> t.dels, err |-> "key too long", panic |-> FALSE]
    ELSE IF t.root.kind = "nil"
    THEN LET ln == makeLeafNode(shiftNibbles(key, 1), ValueHash(value), <<key[1]>>)
             en == makeExtensionNode(<<key[1]>>, ln, <<>>)
         IN  [root |-> en, dels |-> addNode(t.dels, en), err |-> NoErr, panic |-> FALSE]
    ELSE With(descendAdd(t.root, t.dels, store, <<>>, key, ValueHash(value)),
              LAMBDA r :
                IF r.panic
                THEN [root |-> t.root, dels |-> t.dels, err |-> NoErr, panic |-> TRUE]
                ELSE [root |-> r.node, dels |-> r.dels, err |-> NoErr, panic |-> FALSE])

\* Trie.Add that loses the root when it rejects a key
TrieAddErrDropsRoot(t, store, key, value) ==
    IF Len(key) = 0
    THEN [root |-> Nil, dels |-> t.dels, err |-> "empty key not allowed", panic |-> FALSE]
    ELSE IF Len(key) > MaxKeyLength
    THEN [root |-> Nil, dels |-> t.dels, err |-> "key too long", panic |-> FALSE]
    ELSE IF t.root.kind = "nil"
    THEN LET ln == makeLeafNode(key, ValueHash(value), <<>>)
         IN  [root |-> ln, dels |-> addNode(t.dels, ln), err |-> NoErr, panic |-> FALSE]
    ELSE With(descendAdd(t.root, t.dels, store, <<>>, key, ValueHash(value)),
              LAMBDA r :
                IF r.panic
                THEN [root |-> t.root, dels |-> t.dels, err |-> NoErr, panic |-> TRUE]
                ELSE [root |-> r.node, dels |-> r.dels, err |-> NoErr, panic |-> FALSE])

\* Trie.Add that drops the replacement of a root it descended
TrieAddKeepsRoot(t, store, key, value) ==
    IF t.root.kind = "nil"
    THEN LET ln == makeLeafNode(key, ValueHash(value), <<>>)
         IN  [root |-> ln, dels |-> addNode(t.dels, ln), err |-> NoErr, panic |-> FALSE]
    ELSE [root |-> t.root, dels |-> t.dels, err |-> NoErr, panic |-> FALSE]

\* Trie.Add that leaves the value of a root leaf with this key as it is
TrieAddNoOverwrite(t, store, key, value) ==
    IF t.root.kind = "leaf" /\ t.root.keyEnd = key
    THEN [root |-> t.root, dels |-> t.dels, err |-> NoErr, panic |-> FALSE]
    ELSE IF t.root.kind = "nil"
    THEN LET ln == makeLeafNode(key, ValueHash(value), <<>>)
         IN  [root |-> ln, dels |-> addNode(t.dels, ln), err |-> NoErr, panic |-> FALSE]
    ELSE With(descendAdd(t.root, t.dels, store, <<>>, key, ValueHash(value)),
              LAMBDA r :
                [root |-> r.node, dels |-> r.dels, err |-> NoErr, panic |-> r.panic])

\* Trie.Add that leaves the digest cached in the old root in the new one
TrieAddKeepsHash(t, store, key, value) ==
    IF Len(key) = 0
    THEN [root |-> t.root, dels |-> t.dels, err |-> "empty key not allowed", panic |-> FALSE]
    ELSE IF Len(key) > MaxKeyLength
    THEN [root |-> t.root, dels |-> t.dels, err |-> "key too long", panic |-> FALSE]
    ELSE IF t.root.kind = "nil"
    THEN LET ln == makeLeafNode(key, ValueHash(value), <<>>)
         IN  [root |-> ln, dels |-> addNode(t.dels, ln), err |-> NoErr, panic |-> FALSE]
    ELSE With(descendAdd(t.root, t.dels, store, <<>>, key, ValueHash(value)),
              LAMBDA r :
                IF r.panic
                THEN [root |-> t.root, dels |-> t.dels, err |-> NoErr, panic |-> TRUE]
                ELSE [root |-> [r.node EXCEPT !.hash = t.root.hash], dels |-> r.dels,
                      err |-> NoErr, panic |-> FALSE])

\* Trie.Add
TrieAdd(t, store, key, value) ==
    IF Len(key) = 0
    THEN [root |-> t.root, dels |-> t.dels, err |-> "empty key not allowed", panic |-> FALSE]
    ELSE IF Len(key) > MaxKeyLength
    THEN [root |-> t.root, dels |-> t.dels, err |-> "key too long", panic |-> FALSE]
    ELSE IF t.root.kind = "nil"
    THEN LET ln == makeLeafNode(key, ValueHash(value), <<>>)
         IN  [root |-> ln, dels |-> addNode(t.dels, ln), err |-> NoErr, panic |-> FALSE]
    ELSE With(descendAdd(t.root, t.dels, store, <<>>, key, ValueHash(value)),
              LAMBDA r :
                IF r.panic
                THEN [root |-> t.root, dels |-> t.dels, err |-> NoErr, panic |-> TRUE]
                ELSE [root |-> r.node, dels |-> r.dels, err |-> NoErr, panic |-> FALSE])

\* Trie.Delete that reports a key of an empty trie as found
TrieDeleteFoundOnEmpty(t, store, key) ==
    IF Len(key) = 0
    THEN [root |-> t.root, dels |-> t.dels, found |-> FALSE,
          err |-> "empty key not allowed", panic |-> FALSE]
    ELSE IF Len(key) > MaxKeyLength
    THEN [root |-> t.root, dels |-> t.dels, found |-> FALSE,
          err |-> "key too long", panic |-> FALSE]
    ELSE IF t.root.kind = "nil"
    THEN [root |-> t.root, dels |-> t.dels, found |-> TRUE, err |-> NoErr, panic |-> FALSE]
    ELSE With(descendDelete(t.root, t.dels, store, <<>>, key),
              LAMBDA r :
                IF r.panic
                THEN [root |-> t.root, dels |-> t.dels, found |-> FALSE,
                      err |-> NoErr, panic |-> TRUE]
                ELSE [root |-> IF r.found THEN r.node ELSE t.root, dels |-> r.dels,
                      found |-> r.found, err |-> NoErr, panic |-> FALSE])

\* Trie.Delete that keeps the root when the replacement is nil
TrieDeleteKeepsLastNode(t, store, key) ==
    IF Len(key) = 0
    THEN [root |-> t.root, dels |-> t.dels, found |-> FALSE,
          err |-> "empty key not allowed", panic |-> FALSE]
    ELSE IF Len(key) > MaxKeyLength
    THEN [root |-> t.root, dels |-> t.dels, found |-> FALSE,
          err |-> "key too long", panic |-> FALSE]
    ELSE IF t.root.kind = "nil"
    THEN [root |-> t.root, dels |-> t.dels, found |-> FALSE, err |-> NoErr, panic |-> FALSE]
    ELSE With(descendDelete(t.root, t.dels, store, <<>>, key),
              LAMBDA r :
                IF r.panic
                THEN [root |-> t.root, dels |-> t.dels, found |-> FALSE,
                      err |-> NoErr, panic |-> TRUE]
                ELSE [root |-> IF r.found /\ r.node.kind # "nil" THEN r.node ELSE t.root,
                      dels |-> r.dels, found |-> r.found, err |-> NoErr, panic |-> FALSE])

\* Trie.Delete that drops the replacement of the root
TrieDeleteKeepsRoot(t, store, key) ==
    IF Len(key) = 0
    THEN [root |-> t.root, dels |-> t.dels, found |-> FALSE,
          err |-> "empty key not allowed", panic |-> FALSE]
    ELSE IF Len(key) > MaxKeyLength
    THEN [root |-> t.root, dels |-> t.dels, found |-> FALSE,
          err |-> "key too long", panic |-> FALSE]
    ELSE IF t.root.kind = "nil"
    THEN [root |-> t.root, dels |-> t.dels, found |-> FALSE, err |-> NoErr, panic |-> FALSE]
    ELSE With(descendDelete(t.root, t.dels, store, <<>>, key),
              LAMBDA r :
                [root |-> t.root, dels |-> r.dels, found |-> r.found,
                 err |-> NoErr, panic |-> r.panic])

\* Trie.Delete
TrieDelete(t, store, key) ==
    IF Len(key) = 0
    THEN [root |-> t.root, dels |-> t.dels, found |-> FALSE,
          err |-> "empty key not allowed", panic |-> FALSE]
    ELSE IF Len(key) > MaxKeyLength
    THEN [root |-> t.root, dels |-> t.dels, found |-> FALSE,
          err |-> "key too long", panic |-> FALSE]
    ELSE IF t.root.kind = "nil"
    THEN [root |-> t.root, dels |-> t.dels, found |-> FALSE, err |-> NoErr, panic |-> FALSE]
    ELSE With(descendDelete(t.root, t.dels, store, <<>>, key),
              LAMBDA r :
                IF r.panic
                THEN [root |-> t.root, dels |-> t.dels, found |-> FALSE,
                      err |-> NoErr, panic |-> TRUE]
                ELSE [root |-> IF r.found THEN r.node ELSE t.root, dels |-> r.dels,
                      found |-> r.found, err |-> NoErr, panic |-> FALSE])

\* Trie.SetRoot
TrieSetRoot(t, digest) == [root |-> makeDBNode(digest, <<>>), dels |-> t.dels]

\* Trie.RootHash that returns the zero digest instead of the digest cached
\* in the root
TrieRootHashDropsCached(t) ==
    IF t.root.kind = "nil" THEN [root |-> t.root, digest |-> ZeroDigest]
    ELSE IF t.root.hash # <<>> THEN [root |-> t.root, digest |-> ZeroDigest]
    ELSE With(descendHash(t.root),
              LAMBDA hashed : [root |-> hashed, digest |-> hashed.hash[1]])

\* Trie.RootHash: the digest returned, and the root with the digests cached
TrieRootHash(t) ==
    IF t.root.kind = "nil" THEN [root |-> t.root, digest |-> ZeroDigest]
    ELSE IF t.root.hash # <<>> THEN [root |-> t.root, digest |-> t.root.hash[1]]
    ELSE With(descendHash(t.root),
              LAMBDA hashed : [root |-> hashed, digest |-> hashed.hash[1]])

\* db.Apply that keeps nothing but what the batch puts
ApplyKeepsPutsOnly(store, puts, dels) ==
    [k \in DOMAIN puts \ dels |-> puts[k]]

\* db.Apply of the batch Commit builds: the puts, then a delete per key of dels
Apply(store, puts, dels) ==
    [k \in (DOMAIN store \cup DOMAIN puts) \ dels |->
        IF k \in DOMAIN puts THEN puts[k] ELSE store[k]]

\* the places where Commit can fail
Faults == {"hash", "delete", "apply", "close"}

\* Trie.Commit that ends with mt.root = nil
TrieCommitDropsRoot(t, store, fault) ==
    IF fault = "hash"
    THEN [root |-> t.root, dels |-> t.dels, store |-> store, err |-> "hash",
          batch |-> "open"]
    ELSE With(descendHashWithCommit(t.root),
              LAMBDA h :
                CASE fault \in {"delete", "apply"} ->
                        [root |-> h.node, dels |-> t.dels, store |-> store, err |-> fault,
                         batch |-> "open"]
                  [] fault = "close" ->
                        [root |-> h.node, dels |-> t.dels,
                         store |-> Apply(store, h.puts, t.dels), err |-> fault,
                         batch |-> "closed"]
                  [] OTHER ->
                        [root |-> Nil, dels |-> {},
                         store |-> Apply(store, h.puts, t.dels), err |-> NoErr,
                         batch |-> "closed"])

\* Trie.Commit of a trie without parent.  fault is "none" or the call that
\* returns an error: the hashing of the root (before a node is hashed), a
\* batch Delete, Apply or the batch's Close.  batch tells whether b.Close()
\* was called on the batch Commit made, or the batch is left open.
TrieCommit(t, store, fault) ==
    IF fault = "hash"
    THEN [root |-> t.root, dels |-> t.dels, store |-> store, err |-> "hash",
          batch |-> "open"]
    ELSE With(descendHashWithCommit(t.root),
              LAMBDA h :
                CASE fault \in {"delete", "apply"} ->
                        [root |-> h.node, dels |-> t.dels, store |-> store, err |-> fault,
                         batch |-> "open"]
                  [] fault = "close" ->
                        [root |-> h.node, dels |-> t.dels,
                         store |-> Apply(store, h.puts, t.dels), err |-> fault,
                         batch |-> "closed"]
                  [] OTHER ->
                        [root |-> h.node, dels |-> {},
                         store |-> Apply(store, h.puts, t.dels), err |-> NoErr,
                         batch |-> "closed"])

\* whether fault can occur in a Commit of t: the root is hashed only when
\* there is one without a digest, a batch Delete is made only for a key of dels
CanFail(t, fault) ==
    CASE fault = "hash" -> t.root.kind # "nil" /\ t.root.hash = <<>>
      [] fault = "delete" -> t.dels # {}
      [] OTHER -> TRUE

\* Trie.child that hands the parent's pending-delete map to the nested trie
TrieChildSharesDels(t) == [root |-> t.root, dels |-> t.dels, shared |-> TRUE]

\* Trie.child: the nested trie has the parent's root and a pending-delete
\* map of its own (shared: the map is the parent's)
TrieChild(t) == [root |-> t.root, dels |-> {}, shared |-> FALSE]

\* Trie.merge that leaves the parent's pending-delete map as it is
TrieMergeKeepsDels(ch, parent) == [root |-> ch.root, dels |-> parent.dels]

\* Trie.merge: the parent after ch.merge()
TrieMerge(ch, parent) == [root |-> ch.root, dels |-> parent.dels \cup ch.dels]

\* Trie.Commit of a nested trie: merge, then the parent's Commit
TrieCommitNested(ch, parent, store, fault) == TrieCommit(TrieMerge(ch, parent), store, fault)

\* the digest RootHash returns for root
RootHashOf(root) == TrieRootHash([root |-> root, dels |-> {}]).digest


(***************************************************************************)
(* The state: one trie mt (root, dels) on a store, and a second trie       *)
(* (fresh) that is opened on the same store with SetRoot.  The rest is     *)
(* history: the number of calls the run may still make, the last call and  *)
(* the one before it with what they returned, the kinds of call made so    *)
(* far, the map the calls describe (logical) and the pairs added while the *)
(* run consists of Adds only.                                              *)
(***************************************************************************)
VARIABLES
    root,       \* mt.root
    dels,       \* mt.dels: the pending-delete set
    store,      \* the database: database key -> bytes
    batch,      \* the batch the last Commit made: "none", "open" or "closed"
    status,     \* "ok", or "panic" once a call panicked
    fresh,      \* the second trie: [open, root, dels] and what its last call
                \* returned: [panic, found, digest]
    left,       \* number of calls the run may still make
    last,       \* the last call on mt
    prev,       \* the call before it (what was called and what it returned)
    used,       \* the kinds of call made so far
    logical,    \* key -> value, as the successful Adds and Deletes define it
    added,      \* the pairs added so far in a run of Adds only, else {}
    replay      \* the call the second trie has to repeat, or NoCall

vars ==
    <<root, dels, store, batch, status, fresh, left, last, prev, used, logical, added, replay>>

NoCall == [op |-> "none"]
EmptyStore == [k \in {} |-> <<>>]

\* a key as the history records it: a key longer than MaxKeyLength is
\* recorded by its length alone
Recorded(key) == IF Len(key) > MaxKeyLength THEN <<Len(key)>> ELSE key

Present(key) == \E p \in logical : p[1] = key

mt == [root |-> root, dels |-> dels]

\* the second trie: after a call, with what the call returned and the digest
\* RootHash gives after it
Fresh(t, panic, found) ==
    [open |-> TRUE, root |-> t.root, dels |-> t.dels, panic |-> panic, found |-> found,
     digest |-> IF panic THEN ZeroDigest ELSE RootHashOf(t.root)]

\* the second trie before it is made
Closed ==
    [open |-> FALSE, root |-> Nil, dels |-> {}, panic |-> FALSE, found |-> FALSE,
     digest |-> ZeroDigest]

Start(calls) ==
    /\ root = MakeTrie.root
    /\ dels = MakeTrie.dels
    /\ store = EmptyStore
    /\ batch = "none"
    /\ status = "ok"
    /\ fresh = Closed
    /\ left = calls
    /\ last = NoCall
    /\ prev = NoCall
    /\ used = {}
    /\ logical = {}
    /\ added = {}
    /\ replay = NoCall

Init == Start(MaxOps)

\* a call on mt can be made: no call panicked, and the second trie has
\* repeated the last one
Running == status = "ok" /\ ~fresh.panic /\ left > 0 /\ replay = NoCall

\* what the history keeps of a call on mt
Call(op, key, value, found, err, alt) ==
    [op |-> op, key |-> Recorded(key), value |-> value, found |-> found, err |-> err,
     present |-> Present(key), preHash |-> RootHashOf(root), alt |-> alt]

\* what the history keeps of the call before a call on key: what was called,
\* whether on the same key, with which value, and what it returned
Before(call, key) ==
    IF call.op = "none" THEN call
    ELSE [op |-> call.op, sameKey |-> call.key = Recorded(key), value |-> call.value,
          found |-> call.found, err |-> call.err, present |-> call.present]

\* mt.Add(key, value)
Add(key, value) ==
    /\ Running
    /\ \E r \in {TrieAdd(mt, store, key, value)} :
        LET \* the digest Add(key, w) alone gives from this state, for each w
            alone == [w \in Values |-> RootHashOf(TrieAdd(mt, store, key, w).root)]
            ok == r.err = NoErr /\ ~r.panic
        IN  /\ root' = r.root
            /\ dels' = r.dels
            /\ status' = IF r.panic THEN "panic" ELSE "ok"
            /\ left' = left - 1
            /\ last' = Call("Add", key, value, FALSE, r.err, alone)
            /\ prev' = Before(last, key)
            /\ used' = used \cup {IF r.err = NoErr THEN "Add" ELSE "Rejected"}
            /\ logical' = IF ok THEN {p \in logical : p[1] # key} \cup {<<key, value>>}
                          ELSE logical
            /\ added' = IF used \subseteq {"Add"} /\ ok THEN added \cup {<<key, value>>}
                        ELSE {}
            /\ replay' = IF fresh.open /\ ok THEN last' ELSE NoCall
            /\ UNCHANGED <<store, batch, fresh>>

\* mt.Delete(key)
Delete(key) ==
    /\ Running
    /\ \E r \in {TrieDelete(mt, store, key)} :
        LET ok == r.err = NoErr /\ ~r.panic
        IN  /\ root' = r.root
            /\ dels' = r.dels
            /\ status' = IF r.panic THEN "panic" ELSE "ok"
            /\ left' = left - 1
            /\ last' = Call("Delete", key, 0, r.found, r.err, <<>>)
            /\ prev' = Before(last, key)
            /\ used' = used \cup {IF r.err = NoErr THEN "Delete" ELSE "Rejected"}
            /\ logical' = IF ok /\ r.found THEN {p \in logical : p[1] # key} ELSE logical
            /\ added' = {}
            /\ replay' = IF fresh.open /\ ok THEN last' ELSE NoCall
            /\ UNCHANGED <<store, batch, fresh>>

\* mt.RootHash()
RootHash ==
    /\ Running
    /\ ~fresh.open
    /\ \E r \in {TrieRootHash(mt)} :
        /\ root' = r.root
        /\ left' = left - 1
        /\ last' = Call("RootHash", <<>>, 0, FALSE, NoErr, r.digest)
        /\ prev' = Before(last, <<>>)
        /\ used' = used \cup {"RootHash"}
        /\ added' = {}
        /\ UNCHANGED <<dels, store, batch, status, fresh, logical, replay>>

\* mt.Commit(), which succeeds (fault = "none") or fails at fault; kind is the
\* kind of call the history records it as
CommitCall(fault, kind) ==
    /\ Running
    /\ fault = "none" \/ CanFail(mt, fault)
    /\ \E r \in {TrieCommit(mt, store, fault)} :
        LET \* the store a Commit without fault reaches from this state
            expected == TrieCommit(mt, store, "none").store
        IN  /\ root' = r.root
            /\ dels' = r.dels
            /\ store' = r.store
            /\ batch' = r.batch
            /\ left' = left - 1
            /\ last' = Call("Commit", <<>>, 0, FALSE, r.err, expected)
            /\ prev' = Before(last, <<>>)
            /\ used' = used \cup {kind}
            /\ added' = {}
            /\ UNCHANGED <<status, fresh, logical, replay>>

\* mt.Commit() while no second trie is open
Commit(fault) ==
    /\ ~fresh.open
    /\ CommitCall(fault, IF fault = "none" THEN "Commit" ELSE "CommitFailed")

\* the calls that succeed
Next ==
    \/ \E in \in Keys \X Values : Add(in[1], in[2])
    \/ \E key \in Keys : Delete(key)
    \/ RootHash
    \/ Commit("none")

Spec == Init /\ [][Next]_vars

\* the calls that are rejected or fail as well
AddRejected(key) == Add(key, 1)
DeleteRejected(key) == Delete(key)
CommitFailed(fault) == Commit(fault)

NextErr ==
    \/ \E in \in Keys \X Values : Add(in[1], in[2])
    \/ \E key \in Keys : Delete(key)
    \/ RootHash
    \/ Commit("none")
    \/ \E key \in BadKeys : AddRejected(key)
    \/ \E key \in BadKeys : DeleteRejected(key)
    \/ \E fault \in Faults : CommitFailed(fault)

SpecErr == Start(MaxErrOps) /\ [][NextErr]_vars

\* a second trie is made on the store mt committed to, and opened with
\* SetRoot(d), d the RootHash of mt
Open ==
    /\ Running
    /\ ~fresh.open
    /\ last.op = "Commit" /\ last.err = NoErr
    /\ fresh' = Fresh(TrieSetRoot(MakeTrie, RootHashOf(root)), FALSE, FALSE)
    /\ UNCHANGED <<root, dels, store, batch, status, left, last, prev, used, logical,
                   added, replay>>

\* the second trie repeats the Add mt made
FreshAdd ==
    /\ status = "ok"
    /\ replay.op = "Add"
    /\ \E r \in {TrieAdd(fresh, store, replay.key, replay.value)} :
            fresh' = Fresh(r, r.panic, FALSE)
    /\ replay' = NoCall
    /\ UNCHANGED <<root, dels, store, batch, status, left, last, prev, used, logical,
                   added>>

\* the second trie repeats the Delete mt made
FreshDelete ==
    /\ status = "ok"
    /\ replay.op = "Delete"
    /\ \E r \in {TrieDelete(fresh, store, replay.key)} :
            fresh' = Fresh(r, r.panic, r.found)
    /\ replay' = NoCall
    /\ UNCHANGED <<root, dels, store, batch, status, left, last, prev, used, logical,
                   added>>

NextOpen ==
    \/ \E in \in Keys \X Values : Add(in[1], in[2])
    \/ \E key \in Keys : Delete(key)
    \/ Commit("none")
    \/ Open
    \/ FreshAdd
    \/ FreshDelete

SpecOpen == Start(MaxOpenOps) /\ [][NextOpen]_vars

\* Two commits against one: the second trie starts empty like mt and repeats
\* every Add and Delete of mt, but is never committed; mt is committed twice.
InitCoalesce ==
    /\ root = MakeTrie.root
    /\ dels = MakeTrie.dels
    /\ store = EmptyStore
    /\ batch = "none"
    /\ status = "ok"
    /\ fresh = Fresh(MakeTrie, FALSE, FALSE)
    /\ left = MaxCoOps
    /\ last = NoCall
    /\ prev = NoCall
    /\ used = {}
    /\ logical = {}
    /\ added = {}
    /\ replay = NoCall

\* mt.Commit(), the first or the second of the run
CommitTwice ==
    /\ fresh.open
    /\ "CommitAgain" \notin used
    /\ CommitCall("none", IF "Commit" \in used THEN "CommitAgain" ELSE "Commit")

NextCoalesce ==
    \/ \E in \in Keys \X Values : Add(in[1], in[2])
    \/ \E key \in Keys : Delete(key)
    \/ CommitTwice
    \/ FreshAdd
    \/ FreshDelete

SpecCoalesce == InitCoalesce /\ [][NextCoalesce]_vars

\* Packing alone: a nibble sequence n is drawn, packed, and the packed bytes
\* are unpacked (TestNibbles: n.pack(), then unpack(b, half)).  The run is
\* kept in last.
Nibbles == {0, 1, 9, 15}

RECURSIVE NibbleSeqs(_)
NibbleSeqs(len) ==
    IF len = 0 THEN {<<>>}
    ELSE NibbleSeqs(len - 1)
         \cup {Append(n, x) : n \in {m \in NibbleSeqs(len - 1) : Len(m) = len - 1},
                              x \in Nibbles}

InitPack ==
    /\ root = MakeTrie.root
    /\ dels = MakeTrie.dels
    /\ store = EmptyStore
    /\ batch = "none"
    /\ status = "ok"
    /\ fresh = Closed
    /\ left = 2
    /\ last \in {[op |-> "nibbles", n |-> n] : n \in NibbleSeqs(MaxNibbles)}
    /\ prev = NoCall
    /\ used = {}
    /\ logical = {}
    /\ added = {}
    /\ replay = NoCall

\* b, half := n.pack()
Pack ==
    /\ last.op = "nibbles"
    /\ last' = [op |-> "pack", n |-> last.n, bytes |-> packBytes(last.n),
                half |-> packHalf(last.n)]
    /\ left' = left - 1
    /\ UNCHANGED <<root, dels, store, batch, status, fresh, prev, used, logical, added,
                   replay>>

\* unp := unpack(b, half)
Unpack ==
    /\ last.op = "pack"
    /\ last' = [op |-> "unpack", n |-> last.n, bytes |-> last.bytes, half |-> last.half,
                unp |-> unpack(last.bytes, last.half)]
    /\ left' = left - 1
    /\ UNCHANGED <<root, dels, store, batch, status, fresh, prev, used, logical, added,
                   replay>>

NextPack ==
    \/ Pack
    \/ Unpack

SpecPack == InitPack /\ [][NextPack]_vars

\* Serialization alone: a node as the store holds it (its children digests)
\* is drawn and serialized, the bytes are given to the deserializer of each
\* kind, as they are or with the tag replaced by one that is no kind's
\* (TestNodeSerialization).  The run is kept in last.
Digests == {ValueHash(v) : v \in Values}
Paths == {<<>>, <<9>>}
Slots == {0, 1, NumChildren - 1}
BadTags == {6, 255}
Kinds == {"root", "leaf", "ext", "branch"}

SerialNodes ==
    {makeRootNode(d) : d \in Digests}
    \cup {makeLeafNode(keyEnd, d, key) :
            keyEnd \in NibbleSeqs(MaxNibbles), d \in Digests, key \in Paths}
    \cup {makeExtensionNode(sharedKey, makeDBNode(d, key \o sharedKey), key) :
            sharedKey \in NibbleSeqs(MaxNibbles) \ {<<>>}, d \in Digests, key \in Paths}
    \cup {makeBranchNode([i \in 0 .. (NumChildren - 1) |->
                            IF i \in S THEN makeDBNode(d, key \o <<i>>) ELSE Nil],
                         vh, key) :
            S \in SUBSET Slots, d \in Digests, vh \in Digests \cup {ZeroDigest},
            key \in Paths}

InitSerial ==
    /\ root = MakeTrie.root
    /\ dels = MakeTrie.dels
    /\ store = EmptyStore
    /\ batch = "none"
    /\ status = "ok"
    /\ fresh = Closed
    /\ left = 3
    /\ last \in {[op |-> "node", node |-> n] : n \in SerialNodes}
    /\ prev = NoCall
    /\ used = {}
    /\ logical = {}
    /\ added = {}
    /\ replay = NoCall

\* data, err := serializeRootNode(rn), serializeLeafNode(ln), ...
Serialize ==
    /\ last.op = "node"
    /\ last' = [op |-> "serialized", node |-> last.node, broken |-> FALSE,
                data |-> IF last.node.kind = "root" THEN serializeRootNode(last.node)
                         ELSE serializeNode(last.node)]
    /\ left' = left - 1
    /\ UNCHANGED <<root, dels, store, batch, status, fresh, prev, used, logical, added,
                   replay>>

\* the tag of the data is replaced by one that is no kind's
Break(tag) ==
    /\ last.op = "serialized"
    /\ ~last.broken
    /\ last' = [last EXCEPT !.broken = TRUE, !.data.raw[1] = tag]
    /\ left' = left - 1
    /\ UNCHANGED <<root, dels, store, batch, status, fresh, prev, used, logical, added,
                   replay>>

\* the data is given to the deserializer of kind by
Deserialize(by) ==
    /\ last.op = "serialized"
    /\ last' = [op |-> "deserialized", node |-> last.node, broken |-> last.broken,
                data |-> last.data, by |-> by,
                result |->
                    CASE by = "root" -> deserializeRootNode(last.data)
                      [] by = "leaf" -> deserializeLeafNode(last.data, last.node.key)
                      [] by = "ext" -> deserializeExtensionNode(last.data, last.node.key)
                      [] by = "branch" -> deserializeBranchNode(last.data, last.node.key)]
    /\ left' = 0
    /\ UNCHANGED <<root, dels, store, batch, status, fresh, prev, used, logical, added,
                   replay>>

NextSerial ==
    \/ Serialize
    \/ \E tag \in BadTags : Break(tag)
    \/ \E by \in Kinds : Deserialize(by)

SpecSerial == InitSerial /\ [][NextSerial]_vars

\* A nested trie: ch = mt.child() is kept in fresh, with the map its calls
\* describe.  Calls are made on mt while there is no nested trie, and on ch
\* while there is one; ch.Commit() merges ch into mt and commits mt; ch can
\* be dropped without a Commit.
Nested(ch, logic, panic, found) ==
    [open |-> TRUE, root |-> ch.root, dels |-> ch.dels, shared |-> ch.shared,
     logical |-> logic, panic |-> panic, found |-> found,
     digest |-> RootHashOf(ch.root)]

\* ch, with the pending-delete map it uses
ch == [root |-> fresh.root, dels |-> IF fresh.shared THEN dels ELSE fresh.dels,
       shared |-> fresh.shared]

\* a call on ch can be made
RunningNested == status = "ok" /\ fresh.open /\ ~fresh.panic /\ left > 0

\* ch := mt.child()
Child ==
    /\ Running
    /\ ~fresh.open
    /\ fresh' = Nested(TrieChild(mt), logical, FALSE, FALSE)
    /\ UNCHANGED <<root, dels, store, batch, status, left, last, prev, used, logical,
                   added, replay>>

\* ch.Add(key, value); ch has no database of its own
ChildAdd(key, value) ==
    /\ RunningNested
    /\ \E r \in {TrieAdd(ch, EmptyStore, key, value)} :
        /\ fresh' = Nested([root |-> r.root, dels |-> r.dels, shared |-> fresh.shared],
                           IF r.err = NoErr /\ ~r.panic
                           THEN {p \in fresh.logical : p[1] # key} \cup {<<key, value>>}
                           ELSE fresh.logical,
                           r.panic, FALSE)
        /\ dels' = IF fresh.shared THEN r.dels ELSE dels
        /\ left' = left - 1
        /\ last' = Call("ChildAdd", key, value, FALSE, r.err, <<>>)
        /\ prev' = Before(last, key)
        /\ used' = used \cup {"ChildAdd"}
        /\ added' = {}
        /\ UNCHANGED <<root, store, batch, status, logical, replay>>

\* ch.Delete(key)
ChildDelete(key) ==
    /\ RunningNested
    /\ \E r \in {TrieDelete(ch, EmptyStore, key)} :
        /\ fresh' = Nested([root |-> r.root, dels |-> r.dels, shared |-> fresh.shared],
                           IF r.err = NoErr /\ ~r.panic /\ r.found
                           THEN {p \in fresh.logical : p[1] # key}
                           ELSE fresh.logical,
                           r.panic, r.found)
        /\ dels' = IF fresh.shared THEN r.dels ELSE dels
        /\ left' = left - 1
        /\ last' = Call("ChildDelete", key, 0, r.found, r.err, <<>>)
        /\ prev' = Before(last, key)
        /\ used' = used \cup {"ChildDelete"}
        /\ added' = {}
        /\ UNCHANGED <<root, store, batch, status, logical, replay>>

\* ch.Commit(): ch.merge(), then mt.Commit().  The nodes hashed are ch's as
\* well; ch.dels stays as it is.
ChildCommit ==
    /\ RunningNested
    /\ \E r \in {TrieCommitNested(ch, mt, store, "none")} :
        /\ root' = r.root
        /\ dels' = r.dels
        /\ store' = r.store
        /\ batch' = r.batch
        /\ logical' = fresh.logical
        /\ fresh' = Nested([root |-> r.root,
                            dels |-> IF fresh.shared THEN r.dels ELSE fresh.dels,
                            shared |-> fresh.shared],
                           fresh.logical, FALSE, FALSE)
        /\ left' = left - 1
        /\ last' = Call("ChildCommit", <<>>, 0, FALSE, r.err, <<>>)
        /\ prev' = Before(last, <<>>)
        /\ used' = used \cup {"ChildCommit"}
        /\ added' = {}
        /\ UNCHANGED <<status, replay>>

\* ch is dropped
Discard ==
    /\ status = "ok"
    /\ fresh.open
    /\ fresh' = Closed
    /\ UNCHANGED <<root, dels, store, batch, status, left, last, prev, used, logical,
                   added, replay>>

\* the keys of a run with a nested trie: a key, and two that share a prefix
\* and continue the first
NestKeys == { <<0>>, <<0, 0>>, <<0, 1>> }

NextNested ==
    \/ ~fresh.open /\ \E in \in NestKeys \X Values : Add(in[1], in[2])
    \/ ~fresh.open /\ \E key \in NestKeys : Delete(key)
    \/ Commit("none")
    \/ Child
    \/ \E in \in NestKeys \X Values : ChildAdd(in[1], in[2])
    \/ \E key \in NestKeys : ChildDelete(key)
    \/ ChildCommit
    \/ Discard

SpecNested == Start(MaxNestOps) /\ [][NextNested]_vars


(***************************************************************************)
(* The properties.                                                         *)
(***************************************************************************)
\* the pairs M hold one value a key
Consistent(M) == \A p, q \in M : p[1] = q[1] => p[2] = q[2]

\* the trie one ordering of the pairs M gives, starting from an empty trie
RECURSIVE Build(_)
Build(M) ==
    IF M = {} THEN MakeTrie
    ELSE LET p == CHOOSE q \in M : TRUE
         IN  With(Build(M \ {p}), LAMBDA t : TrieAdd(t, EmptyStore, p[1], p[2]))

\* the run so far consists of Adds to an empty trie
AddsOnly == used = {"Add"} /\ status = "ok"

\* C1 as written: starting from an empty trie, whatever the pairs added and
\* the order they were added in, the root (the node shape) and the RootHash
\* are those of every other ordering of the same pairs: they are those of
\* the one ordering Build takes.
DeterminismAnyPairs ==
    AddsOnly =>
        /\ root = Build(added).root
        /\ RootHashOf(root) = RootHashOf(Build(added).root)

\* C1, amended: starting from an empty trie, for pairs that hold one value a
\* key, every ordering of the Adds gives the same root (the same node shape)
\* and the same RootHash.
Determinism ==
    AddsOnly /\ Consistent(added) =>
        /\ root = Build(added).root
        /\ RootHashOf(root) = RootHashOf(Build(added).root)

\* C1: three pairs of different keys were added, in an order that is not
\* the one Build takes
DeterminismWitness ==
    /\ AddsOnly
    /\ Cardinality(added) = 3
    /\ Cardinality(logical) = 3
    /\ <<last.key, last.value>> # (CHOOSE q \in added : TRUE)
    /\ root.kind = "ext"

\* C2: when Add(k, v) of a key k that is not present is followed by
\* Delete(k), the Delete returns true and RootHash is what it was before
\* the Add.
AddDeleteInverse ==
    [][(/\ last.op = "Add" /\ last.err = NoErr /\ ~last.present
        /\ last'.op = "Delete" /\ last'.key = last.key /\ left' = left - 1)
       => (last'.found /\ RootHashOf(root') = last.preHash)]_vars

\* C2: a key that was not present was added to a trie of two keys and then
\* deleted
AddDeleteInverseWitness ==
    /\ last.op = "Delete" /\ last.found
    /\ prev.op = "Add" /\ prev.sameKey /\ ~prev.present
    /\ Cardinality(logical) >= 2

\* C3: Add(k, v1) followed by Add(k, v2) gives the RootHash that Add(k, v2)
\* alone gives from the state before Add(k, v1).
Overwrite ==
    [][(/\ last.op = "Add" /\ last.err = NoErr
        /\ last'.op = "Add" /\ last'.key = last.key /\ left' = left - 1)
       => RootHashOf(root') = last.alt[last'.value]]_vars

\* C3: a key of a trie of two keys or more was added twice in a row, with
\* two different values
OverwriteWitness ==
    /\ last.op = "Add" /\ prev.op = "Add" /\ prev.sameKey
    /\ prev.value # last.value
    /\ Cardinality(logical) >= 2

\* the canonical shape of the nodes from n down
RECURSIVE Canonical(_)
Canonical(n) ==
    CASE n.kind = "branch" ->
            /\ Occupants(n.children, n.valueHash) >= 2
            /\ \A i \in DOMAIN n.children : Canonical(n.children[i])
      [] n.kind = "ext" ->
            /\ n.sharedKey # <<>>
            /\ n.child.kind \notin {"ext", "leaf"}
            /\ Canonical(n.child)
      [] OTHER -> TRUE

\* C4: after any sequence of Adds and Deletes no branch has fewer than two
\* occupants, no extension has an extension or a leaf as its child, and no
\* extension has an empty sharedKey.
CanonicalShape == status = "ok" => Canonical(root)

\* C4: a Delete removed a key and left an extension above a branch
CanonicalShapeWitness ==
    /\ last.op = "Delete" /\ last.found
    /\ used = {"Add", "Delete"}
    /\ root.kind = "ext" /\ root.child.kind = "branch"
    /\ root.child.valueHash # ZeroDigest

\* the database keys of the nodes from n down
RECURSIVE NodeKeys(_)
NodeKeys(n) ==
    CASE n.kind = "branch" ->
            {getDBKey(n)} \cup UNION {NodeKeys(n.children[i]) : i \in DOMAIN n.children}
      [] n.kind = "ext" -> {getDBKey(n)} \cup NodeKeys(n.child)
      [] n.kind = "nil" -> {}
      [] OTHER -> {getDBKey(n)}

\* C5: after a successful Commit that follows Adds, Deletes and earlier
\* Commits, the keys the store holds are the database keys of the nodes
\* reachable from the root: none is missing, none is left over.
PendingDeleteCorrect ==
    (/\ last.op = "Commit" /\ last.err = NoErr
     /\ used \subseteq {"Add", "Delete", "Commit"})
    => DOMAIN store = NodeKeys(root)

\* C6: a second trie opened with SetRoot(d) on the store mt committed to
\* returns the RootHash d, and after every Add and Delete that both tries
\* make it returned what mt returned and has the RootHash of mt.
OpenAfterCommit ==
    (fresh.open /\ replay = NoCall)
    => /\ ~fresh.panic
       /\ fresh.digest = RootHashOf(root)
       /\ last.op = "Delete" => fresh.found = last.found

\* C7: the RootHash after a successful Commit is the RootHash before it.
CommitKeepsRootHash ==
    (last.op = "Commit" /\ last.err = NoErr) => RootHashOf(root) = last.preHash

\* C7: a trie of an extension above a branch was committed after an Add or
\* a Delete changed it
CommitKeepsRootHashWitness ==
    /\ last.op = "Commit" /\ last.err = NoErr
    /\ prev.op \in {"Add", "Delete"}
    /\ root.kind = "ext"
    /\ last.preHash # ZeroDigest

\* C8: a successful Commit that follows a successful Commit at once leaves
\* the store as it is.
CommitIdempotent ==
    [][(/\ last.op = "Commit" /\ last.err = NoErr
        /\ last'.op = "Commit" /\ last'.err = NoErr /\ left' = left - 1)
       => store' = store]_vars

\* C8: two Commits in a row, on a store that holds nodes
CommitIdempotentWitness ==
    /\ last.op = "Commit" /\ last.err = NoErr
    /\ prev.op = "Commit" /\ prev.err = NoErr
    /\ store # EmptyStore

\* n with no digest cached from n down
RECURSIVE Unhashed(_)
Unhashed(n) ==
    CASE n.kind = "branch" ->
            [n EXCEPT !.hash = <<>>,
                      !.children = [i \in DOMAIN n.children |-> Unhashed(n.children[i])]]
      [] n.kind = "ext" -> [n EXCEPT !.hash = <<>>, !.child = Unhashed(n.child)]
      [] n.kind = "leaf" -> [n EXCEPT !.hash = <<>>]
      [] OTHER -> n

\* C9: a Commit that returns an error leaves the nodes of the root and the
\* pending-delete set as they were and the store either as it was or as the
\* Commit would have left it, and a Commit that succeeds right after it
\* leaves the store as the first Commit would have, had it succeeded.
CommitErrorRetains ==
    [][/\ (last'.op = "Commit" /\ last'.err # NoErr /\ left' = left - 1)
          => /\ Unhashed(root') = Unhashed(root)
             /\ dels' = dels
             /\ store' \in {store, last'.alt}
       /\ (/\ last.op = "Commit" /\ last.err # NoErr
           /\ last'.op = "Commit" /\ last'.err = NoErr /\ left' = left - 1)
          => store' = last.alt]_vars

DeleteResultIsPresence ==
    (last.op = "Delete" /\ status = "ok")
    => /\ last.err = NoErr
       /\ last.found = last.present
       /\ (prev.op = "Delete" /\ prev.sameKey /\ prev.found) => ~last.found

\* C11: a key of a trie of two keys was deleted twice in a row
DeleteResultIsPresenceWitness ==
    /\ last.op = "Delete" /\ ~last.found /\ last.err = NoErr
    /\ prev.op = "Delete" /\ prev.sameKey /\ prev.found
    /\ logical # {}

\* C12: RootHash is the zero digest exactly when the trie holds no key:
\* right after MakeTrie and whenever every key added was deleted again.
ZeroRootHash ==
    status = "ok" => (RootHashOf(root) = ZeroDigest <=> logical = {})

\* C12: two keys were added and both were deleted again
ZeroRootHashWitness ==
    /\ logical = {} /\ RootHashOf(root) = ZeroDigest
    /\ last.op = "Delete" /\ last.found
    /\ prev.op = "Delete" /\ prev.found

\* the number of nibbles of the key of a call (a key longer than
\* MaxKeyLength is recorded by its length)
KeyNibbles(call) ==
    IF call.key # <<>> /\ call.key[1] >= NumChildren THEN call.key[1] ELSE Len(call.key)

\* C13: Add and Delete reject a key exactly when it is empty (EmptyKey) or
\* longer than 65,535 bytes (KeyTooLong), a key byte being two nibbles of
\* the path: a key of 1 to 65,535 bytes is accepted, and a rejected call
\* leaves the root and the pending-delete set as they were.
KeyLengthValidation ==
    [][(/\ last'.op \in {"Add", "Delete"} /\ left' = left - 1
        /\ KeyNibbles(last') % 2 = 0)
       => LET bytes == KeyNibbles(last') \div 2
          IN  /\ last'.err = "empty key not allowed" <=> bytes = 0
              /\ last'.err = "key too long" <=> bytes > MaxKeyLength
              /\ last'.err # NoErr => (root' = root /\ dels' = dels)]_vars

\* C14: the batch a Commit makes is closed before the Commit returns, on
\* every exit path: success, an error from hashing the root, from a batch
\* Delete and from Apply.
BatchClosed == batch # "open"


\* C15: commit coalescing.  For sequences A and B of Adds and Deletes, the
\* run A; Commit; B; Commit leaves the store and the RootHash as the run
\* A; B; Commit does: after the second Commit of mt, the store is the one a
\* single Commit of the second trie (which made the calls of A and B and no
\* Commit) writes to an empty store, and the two tries have the same RootHash.
CommitCoalescing ==
    (last.op = "Commit" /\ "CommitAgain" \in used /\ status = "ok")
    => /\ store = TrieCommit(fresh, EmptyStore, "none").store
       /\ RootHashOf(root) = fresh.digest


\* C16: RootHash is pure.  A RootHash call writes nothing to the store,
\* leaves the pending-delete set and the logical map unchanged (the nodes of
\* the trie are the same, digests cached aside), and the second of two
\* RootHash calls in a row returns the digest the first returned.
RootHashPure ==
    [][(last'.op = "RootHash" /\ left' = left - 1)
       => /\ store' = store
          /\ dels' = dels
          /\ logical' = logical
          /\ Unhashed(root') = Unhashed(root)
          /\ last'.alt = RootHashOf(root')
          /\ last.op = "RootHash" => last'.alt = last.alt]_vars

\* the second of two RootHash calls in a row on a trie that holds keys
RootHashPureWitness ==
    /\ last.op = "RootHash" /\ prev.op = "RootHash"
    /\ Cardinality(logical) > 1
    /\ last.alt # ZeroDigest
    /\ status = "ok"


\* C17: when the store reports an error, or the bytes do not deserialize,
\* while a placeholder is faulted in, the Add or Delete returns the error as
\* a value instead of aborting and the trie stays usable: no call on the
\* second trie, whose root is a placeholder, aborts.
FaultReturnsError == fresh.open => ~fresh.panic


\* C18: nibble packing round-trips.  For a nibble sequence n with values in
\* 0..15, pack(n) returns ceil(|n|/2) bytes, half is true exactly when |n| is
\* odd, the low half of the last byte is zero when half is true, and
\* unpack(pack(n).bytes, pack(n).half) is n.
PackRoundTrip ==
    /\ last.op \in {"pack", "unpack"}
       => /\ 2 * Len(last.bytes) \in {Len(last.n), Len(last.n) + 1}
          /\ last.half <=> Len(last.n) % 2 = 1
          /\ last.half => last.bytes[Len(last.bytes)] % 16 = 0
          /\ \A i \in 1 .. Len(last.bytes) : last.bytes[i] \in 0 .. 255
    /\ last.op = "unpack" => last.unp = last.n

\* sequences of odd and of even length whose last nibble is not zero were
\* packed and unpacked
PackRoundTripWitness ==
    /\ last.op = "unpack"
    /\ Len(last.n) = MaxNibbles
    /\ last.n[Len(last.n)] = 15 /\ last.n[1] = 9
    /\ last.unp = last.n


\* C19: the deserializer of each kind is the partial inverse of the kind's
\* serializer.  deserialize(serialize(N)) is N for every root, leaf (keyEnd
\* of odd and of even length), extension (sharedKey of odd and of even
\* length) and branch node N, and a deserializer given bytes whose tag is
\* another kind's, or no kind's, returns an error.
SerializationRoundTrip ==
    last.op = "deserialized"
    => IF ~last.broken /\ last.by = last.node.kind
       THEN ~last.result.err /\ last.result.node = last.node
       ELSE last.result.err

\* a leaf with a keyEnd of odd length was serialized and deserialized
SerializationRoundTripWitness ==
    /\ last.op = "deserialized" /\ ~last.broken
    /\ last.by = "leaf" /\ last.node.kind = "leaf"
    /\ Len(last.node.keyEnd) = 3 /\ last.node.keyEnd[3] = 15
    /\ last.data.raw[1] = 3
    /\ ~last.result.err


\* the children of n
ChildrenOf(n) ==
    CASE n.kind = "branch" -> {n.children[i] : i \in DOMAIN n.children} \ {Nil}
      [] n.kind = "ext" -> {n.child}
      [] OTHER -> {}

\* from n down, a digest cached in a node is the digest of the node's
\* serialization, its children in hash form
RECURSIVE CacheSound(_)
CacheSound(n) ==
    /\ (n.kind \in {"leaf", "ext", "branch"} /\ n.hash # <<>>)
       => /\ \A c \in ChildrenOf(n) : c.hash # <<>>
          /\ n.hash[1] = Hash(serializeNode(n))
    /\ \A c \in ChildrenOf(n) : CacheSound(c)

\* C20: incremental hashing is sound.  In every state reached by Adds,
\* Deletes, RootHash calls and Commits, the hash cache of each node is empty
\* or the digest of the node's current serialization, and RootHash returns
\* the digest that hashing the whole trie with every cache cleared gives.
HashCacheSound ==
    status = "ok"
    => /\ CacheSound(root)
       /\ RootHashOf(root) = RootHashOf(Unhashed(root))

\* an Add or a Delete changed a trie whose digests were cached: the root has
\* no digest, a node below it still has one
HashCacheSoundWitness ==
    /\ last.op \in {"Add", "Delete"} /\ last.err = NoErr
    /\ prev.op \in {"RootHash", "Commit"}
    /\ root.kind = "branch" /\ root.hash = <<>>
    /\ \E c \in ChildrenOf(root) : c.hash # <<>>
    /\ \E c \in ChildrenOf(root) : c.hash = <<>>


\* C21: addNode cancels a pending delete of the same position.  When an Add
\* replaces a root that has its digest cached, delNode records the old root
\* (at the empty path) in the pending-delete set and addNode is called for
\* the new root at the same path: after the Add the database key of that
\* path is not in the pending-delete set.
AddNodeCancelsDelete ==
    [][(/\ last'.op = "Add" /\ left' = left - 1 /\ last'.err = NoErr
        /\ status' = "ok"
        /\ root.kind # "nil" /\ root.hash # <<>>
        /\ root'.kind # "nil" /\ root'.key = root.key /\ root' # root)
       => getDBKey(root) \notin dels']_vars


\* C22: Commit on a nested trie is merge followed by the parent's Commit.
\* The parent's root becomes the nested root, the parent's pending-delete
\* set becomes the union of the two sets before the batch is built, and the
\* store receives the puts of the nested root's new nodes and a delete for
\* every key of the union.
NestedCommit ==
    [][(last'.op = "ChildCommit" /\ left' = left - 1)
       => LET union == dels \cup fresh.dels
              puts == descendHashWithCommit(fresh.root).puts
          IN  /\ last'.err = NoErr
              /\ Unhashed(root') = Unhashed(fresh.root)
              /\ RootHashOf(root') = fresh.digest
              /\ DOMAIN store' = (DOMAIN store \cup DOMAIN puts) \ union
              /\ \A k \in DOMAIN store' :
                    store'[k] = IF k \in DOMAIN puts THEN puts[k] ELSE store[k]
              /\ dels' = {}]_vars

\* a nested trie that deleted a key of a committed parent was committed: its
\* pending deletes were applied to the store
NestedCommitWitness ==
    /\ last.op = "ChildCommit" /\ last.err = NoErr
    /\ prev.op = "ChildDelete" /\ prev.found
    /\ fresh.open /\ fresh.dels # {} /\ ~fresh.shared
    /\ fresh.dels \cap DOMAIN store = {}
    /\ root = fresh.root

\* C23: nested-snapshot isolation.  An Add or a Delete on ch = child() leaves
\* the parent's root and RootHash, the parent's pending-delete set and the
\* store unchanged, and so does dropping ch.
NestedIsolation ==
    [][(\/ last'.op \in {"ChildAdd", "ChildDelete"} /\ left' = left - 1
        \/ fresh.open /\ ~fresh'.open)
       => /\ root' = root
          /\ RootHashOf(root') = RootHashOf(root)
          /\ dels' = dels
          /\ store' = store
          /\ logical' = logical]_vars

\* ch deleted a key of a committed parent: ch has another RootHash and a
\* pending delete, the parent has neither
NestedIsolationWitness ==
    /\ last.op = "ChildDelete" /\ last.found
    /\ prev.op = "ChildAdd"
    /\ fresh.open /\ fresh.dels # {} /\ dels = {}
    /\ store # EmptyStore
    /\ fresh.digest # RootHashOf(root)
    /\ fresh.logical # logical


\* C24: a node faulted in from a placeholder whose key is not in the
\* pending-delete set carries the placeholder's hash as its cached digest.
\* Here the placeholder is the root of the second trie, opened with SetRoot
\* on the store mt committed to, and the node is what getNode returns for it.
FaultedNodeKeepsHash ==
    (/\ fresh.open /\ ~fresh.panic /\ fresh.root.kind = "db"
     /\ getDBKey(fresh.root) \notin fresh.dels
     /\ getDBKey(fresh.root) \in DOMAIN store)
    => \A g \in {getNode(fresh.root, fresh.dels, store)} :
          (~g.panic /\ g.node.kind # "nil") => g.node.hash = fresh.root.hash


\* C25: in the batch a Commit builds, after any Adds and Deletes, no database
\* key is both put and deleted: no key of the pending-delete set is the
\* database key of a node the Commit writes or of a node reachable from the
\* root after it.
NoPutAndDelete ==
    [][(last'.op = "Commit" /\ left' = left - 1 /\ last'.err = NoErr)
       => /\ dels \cap DOMAIN descendHashWithCommit(root).puts = {}
          /\ dels \cap NodeKeys(root') = {}]_vars

=============================================================================
